---- MODULE Spec2Model ----
(***************************************************************************)
(* The chunk-and-embed service of apps/rag: chunk_document                 *)
(* (services/chunker.py), generate_embeddings (services/embedder.py) and   *)
(* the POST /chunk handler create_chunks (api/routes/chunk.py).            *)
(*                                                                         *)
(* A text is a sequence of tokens.  An optional value (Python's None or a  *)
(* value) is the empty tuple or a one-element tuple.  A message string is  *)
(* the sequence of the pieces it is formatted from.  Every handler runs on *)
(* one asyncio event loop: a handler step is atomic from one await to the  *)
(* next, and the only await is the provider call of generate_embeddings.   *)
(***************************************************************************)
EXTENDS Integers, Sequences, FiniteSets, TLC

VARIABLES pc, mode, request, splitter, chunkOut, texts, invoked, posts,
          response, embedOut, result

vars == <<pc, mode, request, splitter, chunkOut, texts, invoked, posts,
          response, embedOut, result>>

(* ------------------------------ bounds -------------------------------- *)

NumReq == 2
MaxLen == 4
MaxSize == 2
MaxOverlap == 1
MaxTexts == 2

Req == 1..NumReq
Tokens == {"a", "b"}

(* ------------------------- configuration ------------------------------ *)

default_chunk_size == 512
default_chunk_overlap == 50
openrouter_embedding_model == "openai/text-embedding-3-small"

(* ----------------------------- values --------------------------------- *)

None == <<>>
Some(v) == <<v>>

SeqsUpTo(S, n) == UNION {[1..k -> S] : k \in 0..n}

Contents == SeqsUpTo(Tokens, MaxLen)
SizeOpts == {None} \cup {Some(v) : v \in 0..MaxSize}
OverlapOpts == {None} \cup {Some(v) : v \in 0..MaxOverlap}
MetaOpts == {None, Some("m1"), Some("m2")}

ChunkRequest ==
  [content : Contents, metadata : MetaOpts,
   chunk_size : SizeOpts, chunk_overlap : OverlapOpts]

NoRequest ==
  [content |-> <<>>, metadata |-> None, chunk_size |-> None, chunk_overlap |-> None]

Exc(type, msg) == [type |-> type, msg |-> msg]
NoExc == Exc("", <<>>)

NoSplitter == [constructed |-> FALSE, chunk_size |-> 0, chunk_overlap |-> 0]
NoOutcome == [returned |-> FALSE, value |-> <<>>, exc |-> NoExc]
Returned(v) == [returned |-> TRUE, value |-> v, exc |-> NoExc]
Raised(e) == [returned |-> FALSE, value |-> <<>>, exc |-> e]

NoResponse ==
  [transport |-> "none", status |-> 0, text |-> "", payload |-> "", data |-> <<>>]
NoResult == [status |-> 0, chunks |-> <<>>, total_chunks |-> 0, detail |-> <<>>]

(* ----------------------------- chunker -------------------------------- *)

\* Python's `x or d` on an optional integer: None and 0 are both falsy.
PyOr(x, d) == IF x = None \/ x[1] = 0 THEN d ELSE x[1]

SplitterArgs(chunk_size, chunk_overlap) ==
  [constructed |-> TRUE,
   chunk_size |-> PyOr(chunk_size, default_chunk_size),
   chunk_overlap |-> PyOr(chunk_overlap, default_chunk_overlap)]

\* The sentence splitter is a library.  Its contract: a size that is not
\* positive, a negative overlap and an overlap that is not below the size are
\* rejected with a validation error.
SplitterRejects(size, overlap) == size <= 0 \/ overlap < 0 \/ overlap >= size

SplitterError == Exc("ValueError", <<"Got a larger chunk overlap than chunk size">>)

RECURSIVE Windows(_, _, _, _)
Windows(text, size, overlap, start) ==
  IF start + size >= Len(text)
  THEN <<SubSeq(text, start + 1, Len(text))>>
  ELSE <<SubSeq(text, start + 1, start + size)>>
         \o Windows(text, size, overlap, start + size - overlap)

\* The library's split: the empty text has no node, any other text is cut
\* into windows of `size` tokens, neighbours sharing `overlap` tokens.
get_nodes_from_documents(text, size, overlap) ==
  IF text = <<>> THEN <<>> ELSE Windows(text, size, overlap, 0)

\* enumerate(nodes): the node at list position pos (1-based here) gets pos - 1.
EnumerateIndex(pos) == pos - 1

chunk_document(content, chunk_size, chunk_overlap) ==
  LET a == SplitterArgs(chunk_size, chunk_overlap) IN
  IF SplitterRejects(a.chunk_size, a.chunk_overlap)
  THEN Raised(SplitterError)
  ELSE LET nodes == get_nodes_from_documents(content, a.chunk_size, a.chunk_overlap) IN
       Returned([pos \in 1..Len(nodes) |->
                   [content |-> nodes[pos], chunk_index |-> EnumerateIndex(pos)]])

(* ----------------------------- provider ------------------------------- *)

Vec(text) == [valid |-> TRUE, of |-> text]
NotAVector == [valid |-> FALSE, of |-> <<>>]

\* The data list a well-behaved provider returns: one item per input text,
\* in input order, each carrying the 0-based index of its text.
Items(ts) == [i \in 1..Len(ts) |-> [index |-> i - 1, embedding |-> Vec(ts[i])]]

Reverse(s) == [i \in 1..Len(s) |-> s[Len(s) + 1 - i]]

Ok200(data) ==
  [transport |-> "ok", status |-> 200, text |-> "", payload |-> "data", data |-> data]

ErrorStatuses == {401, 500}
ErrorTexts == {"unauthorized", "overloaded"}

\* Everything the provider (or the transport) can answer to one request
\* carrying the texts ts: the provider is opaque.
Answers(ts) ==
  LET items == Items(ts) IN
  {Ok200(items),
   Ok200(SubSeq(items, 1, Len(items) - 1)),
   Ok200(Append(items, [index |-> Len(items), embedding |-> Vec(<<>>)])),
   Ok200(Reverse(items)),
   Ok200([items EXCEPT ![1].embedding = NotAVector])}
  \cup {[transport |-> "ok", status |-> 200, text |-> "", payload |-> p, data |-> <<>>] :
          p \in {"nokey", "notjson"}}
  \cup {[transport |-> "ok", status |-> s, text |-> t, payload |-> "", data |-> <<>>] :
          s \in ErrorStatuses, t \in ErrorTexts}
  \cup {[transport |-> "timeout", status |-> 0, text |-> "", payload |-> "", data |-> <<>>]}

(* ----------------------------- embedder ------------------------------- *)

OneRequestPerText(ts) ==
  [i \in 1..Len(ts) |-> [model |-> openrouter_embedding_model, input |-> <<ts[i]>>]]

\* The outbound requests one call of generate_embeddings issues for a
\* non-empty list of texts: one POST whose input is the whole list.
OutboundRequests(ts) == <<[model |-> openrouter_embedding_model, input |-> ts]>>

\* `if not texts`
NoTexts(ts) == ts = <<>>

ErrorWithoutText(resp) == Exc("Exception", <<"OpenRouter embedding failed: ">>)

\* raise Exception(f"OpenRouter embedding failed: {response.text}")
NonSuccessError(resp) == Exc("Exception", <<"OpenRouter embedding failed: ", resp.text>>)

\* generate_embeddings from the return of client.post to its own return.
generate_embeddings_resume(resp) ==
  IF resp.transport # "ok" THEN Raised(Exc("TimeoutException", <<"timed out">>))
  ELSE IF resp.status # 200 THEN Raised(NonSuccessError(resp))
  ELSE IF resp.payload = "notjson" THEN Raised(Exc("JSONDecodeError", <<"Expecting value">>))
  ELSE IF resp.payload = "nokey" THEN Raised(Exc("KeyError", <<"'data'">>))
  ELSE Returned([i \in 1..Len(resp.data) |-> resp.data[i].embedding])

(* ------------------------------ route --------------------------------- *)

Min(a, b) == IF a <= b THEN a ELSE b

Success(cs) == [status |-> 200, chunks |-> cs, total_chunks |-> Len(cs), detail |-> <<>>]

\* raise HTTPException(status_code=500, detail=str(e))
Failure(e) == [status |-> 500, chunks |-> <<>>, total_chunks |-> 0, detail |-> e.msg]

\* `if not chunks`
EmptyChunks(cs) == cs = <<>>

ChunkContents(cs) == [i \in 1..Len(cs) |-> cs[i].content]

DroppedMetadata(req) == None

\* metadata=request.metadata
ChunkMetadata(req) == req.metadata

\* The loop over zip(chunks, embeddings): zip stops at the shorter list, and
\* ChunkResponse(...) validates that embedding is a list of floats.
Assemble(cs, embeddings, req) ==
  LET n == Min(Len(cs), Len(embeddings)) IN
  IF \E i \in 1..n : ~embeddings[i].valid
  THEN Raised(Exc("ValidationError", <<"embedding: Input should be a valid list">>))
  ELSE Returned([i \in 1..n |->
                   [content |-> cs[i].content,
                    embedding |-> embeddings[i],
                    chunk_index |-> cs[i].chunk_index,
                    metadata |-> ChunkMetadata(req)]])

\* The handler's tail, from the return of generate_embeddings to the response.
Respond(cs, embedded, req) ==
  IF ~embedded.returned THEN Failure(embedded.exc)
  ELSE LET assembled == Assemble(cs, embedded.value, req) IN
       IF assembled.returned THEN Success(assembled.value) ELSE Failure(assembled.exc)

SharedChunks(r) ==
  chunkOut[CHOOSE q \in Req : chunkOut[q].returned /\ \A p \in Req : chunkOut[p].returned => q <= p].value

\* The handler's local `chunks`, kept in its own frame across the await.
FrameChunks(r) == chunkOut[r].value

(* ----------------------------- actions -------------------------------- *)

Init ==
  /\ pc = [r \in Req |-> "idle"]
  /\ mode = [r \in Req |-> "none"]
  /\ request = [r \in Req |-> NoRequest]
  /\ splitter = [r \in Req |-> NoSplitter]
  /\ chunkOut = [r \in Req |-> NoOutcome]
  /\ texts = [r \in Req |-> <<>>]
  /\ invoked = [r \in Req |-> 0]
  /\ posts = [r \in Req |-> <<>>]
  /\ response = [r \in Req |-> NoResponse]
  /\ embedOut = [r \in Req |-> NoOutcome]
  /\ result = [r \in Req |-> NoResult]

\* create_chunks from the arrival of the request to its first await (or to
\* its response when it never awaits).
create_chunks(r, req) ==
  /\ pc[r] = "idle"
  /\ mode' = [mode EXCEPT ![r] = "route"]
  /\ request' = [request EXCEPT ![r] = req]
  /\ splitter' = [splitter EXCEPT ![r] = SplitterArgs(req.chunk_size, req.chunk_overlap)]
  /\ LET out == chunk_document(req.content, req.chunk_size, req.chunk_overlap) IN
     /\ chunkOut' = [chunkOut EXCEPT ![r] = out]
     /\ IF ~out.returned
        THEN /\ result' = [result EXCEPT ![r] = Failure(out.exc)]
             /\ pc' = [pc EXCEPT ![r] = "done"]
             /\ UNCHANGED <<texts, invoked, posts, embedOut>>
        ELSE IF EmptyChunks(out.value)
        THEN /\ result' = [result EXCEPT ![r] = Success(<<>>)]
             /\ pc' = [pc EXCEPT ![r] = "done"]
             /\ UNCHANGED <<texts, invoked, posts, embedOut>>
        ELSE LET ts == ChunkContents(out.value) IN
             /\ texts' = [texts EXCEPT ![r] = ts]
             /\ invoked' = [invoked EXCEPT ![r] = @ + 1]
             /\ IF NoTexts(ts)
                THEN /\ embedOut' = [embedOut EXCEPT ![r] = Returned(<<>>)]
                     /\ result' = [result EXCEPT ![r] = Respond(out.value, Returned(<<>>), req)]
                     /\ pc' = [pc EXCEPT ![r] = "done"]
                     /\ UNCHANGED posts
                ELSE /\ posts' = [posts EXCEPT ![r] = @ \o OutboundRequests(ts)]
                     /\ pc' = [pc EXCEPT ![r] = "awaiting"]
                     /\ UNCHANGED <<embedOut, result>>
  /\ UNCHANGED response

\* generate_embeddings called by another caller of the services module, from
\* the call to its await (or to its return for the empty list).
generate_embeddings(r, ts) ==
  /\ pc[r] = "idle"
  /\ mode' = [mode EXCEPT ![r] = "direct"]
  /\ texts' = [texts EXCEPT ![r] = ts]
  /\ invoked' = [invoked EXCEPT ![r] = @ + 1]
  /\ IF NoTexts(ts)
     THEN /\ embedOut' = [embedOut EXCEPT ![r] = Returned(<<>>)]
          /\ pc' = [pc EXCEPT ![r] = "done"]
          /\ UNCHANGED posts
     ELSE /\ posts' = [posts EXCEPT ![r] = @ \o OutboundRequests(ts)]
          /\ pc' = [pc EXCEPT ![r] = "awaiting"]
          /\ UNCHANGED embedOut
  /\ UNCHANGED <<request, splitter, chunkOut, response, result>>

\* The provider (or the transport) answers the outstanding request of r.
ProviderResponds(r) ==
  /\ pc[r] = "awaiting"
  /\ \E a \in Answers(posts[r][Len(posts[r])].input) :
       response' = [response EXCEPT ![r] = a]
  /\ pc' = [pc EXCEPT ![r] = "responded"]
  /\ UNCHANGED <<mode, request, splitter, chunkOut, texts, invoked, posts, embedOut, result>>

\* The event loop resumes the handler: generate_embeddings returns or raises,
\* and create_chunks runs to its response.
ResumeRoute(r) ==
  /\ pc[r] = "responded"
  /\ mode[r] = "route"
  /\ LET embedded == generate_embeddings_resume(response[r]) IN
     /\ embedOut' = [embedOut EXCEPT ![r] = embedded]
     /\ result' = [result EXCEPT ![r] = Respond(FrameChunks(r), embedded, request[r])]
  /\ pc' = [pc EXCEPT ![r] = "done"]
  /\ UNCHANGED <<mode, request, splitter, chunkOut, texts, invoked, posts, response>>

\* The event loop resumes a direct call of generate_embeddings.
ResumeDirect(r) ==
  /\ pc[r] = "responded"
  /\ mode[r] = "direct"
  /\ embedOut' = [embedOut EXCEPT ![r] = generate_embeddings_resume(response[r])]
  /\ pc' = [pc EXCEPT ![r] = "done"]
  /\ UNCHANGED <<mode, request, splitter, chunkOut, texts, invoked, posts, response, result>>

(* -------------------------- specifications ---------------------------- *)

TextLists == SeqsUpTo({<<"a">>, <<"b", "a">>}, MaxTexts)

Alone(r) == \A q \in Req \ {r} : pc[q] = "idle"

\* One request at a time, over the whole input domain.
Receive(r) == Alone(r) /\ \E req \in ChunkRequest : create_chunks(r, req)
CallEmbeddings(r) == Alone(r) /\ \E ts \in TextLists : generate_embeddings(r, ts)

Next ==
  \E r \in Req :
    \/ Receive(r)
    \/ CallEmbeddings(r)
    \/ ProviderResponds(r)
    \/ ResumeRoute(r)
    \/ ResumeDirect(r)

Spec == Init /\ [][Next]_vars

\* Several requests in flight at once, each suspended at its provider call.
ConcRequests ==
  [content : {<<>>, <<"a", "b", "a">>, <<"b", "a", "b">>},
   metadata : {Some("m1"), Some("m2")},
   chunk_size : {Some(2)}, chunk_overlap : {Some(0), Some(1)}]

ReceiveConc(r) == \E req \in ConcRequests : create_chunks(r, req)

NextConc ==
  \E r \in Req :
    \/ ReceiveConc(r)
    \/ ProviderResponds(r)
    \/ ResumeRoute(r)

SpecConc == Init /\ [][NextConc]_vars

(* ------------------------------ claims -------------------------------- *)

Done(r) == pc[r] = "done"
RouteDone(r) == mode[r] = "route" /\ pc[r] = "done"

\* Both parameters supplied, and in the documented input domain: a positive
\* size and a non-negative overlap below it.
SuppliedValid(req) ==
  /\ req.chunk_size # None
  /\ req.chunk_overlap # None
  /\ req.chunk_size[1] >= 1
  /\ req.chunk_overlap[1] >= 0
  /\ req.chunk_overlap[1] < req.chunk_size[1]

\* C1: whenever generate_embeddings returns normally for a non-empty list of
\* texts, it returns exactly one vector per text, and the vector at position
\* i is the one the provider produced for the text at position i (the item
\* of the response that carries index i), whatever 200 response the provider
\* gave.
C1_AlignedWithInput ==
  \A r \in Req :
    (Done(r) /\ embedOut[r].returned /\ texts[r] # <<>>) =>
      /\ Len(embedOut[r].value) = Len(texts[r])
      /\ \A i \in 1..Len(texts[r]) :
           \E j \in 1..Len(response[r].data) :
             /\ response[r].data[j].index = i - 1
             /\ embedOut[r].value[i] = response[r].data[j].embedding

\* C2: every successful POST /chunk response holds exactly one result per
\* splitter chunk, in splitter order, with that chunk's content, index and
\* embedding, and total_chunks is the number of splitter chunks.
C2_OneResultPerChunk ==
  \A r \in Req :
    (RouteDone(r) /\ result[r].status = 200) =>
      LET cs == chunkOut[r].value IN
      /\ result[r].total_chunks = Len(cs)
      /\ Len(result[r].chunks) = Len(cs)
      /\ \A i \in 1..Len(cs) :
           /\ result[r].chunks[i].content = cs[i].content
           /\ result[r].chunks[i].chunk_index = cs[i].chunk_index
           /\ result[r].chunks[i].embedding = Vec(cs[i].content)

\* C3: a POST /chunk request whose content is the empty string (its size and
\* overlap, when supplied, in the documented domain) ends in the success
\* response {chunks: [], total_chunks: 0}, and generate_embeddings was never
\* invoked and no provider request was made for it.
C3_EmptyContentEmptyResult ==
  \A r \in Req :
    (RouteDone(r) /\ request[r].content = <<>> /\ SuppliedValid(request[r])) =>
      /\ result[r] = [status |-> 200, chunks |-> <<>>, total_chunks |-> 0, detail |-> <<>>]
      /\ invoked[r] = 0
      /\ posts[r] = <<>>

\* C4: an exception of the splitter, of generate_embeddings or of response
\* assembly ends the request with HTTP 500 whose detail is the exception's
\* message and with no chunk result; a success response never carries only
\* some of the chunks.
C4_AllOrNothing ==
  \A r \in Req :
    RouteDone(r) =>
      LET cs == chunkOut[r].value
          n == Min(Len(cs), Len(embedOut[r].value))
      IN
      /\ result[r].status \in {200, 500}
      /\ ~chunkOut[r].returned =>
           result[r] = [status |-> 500, chunks |-> <<>>, total_chunks |-> 0,
                        detail |-> chunkOut[r].exc.msg]
      /\ (invoked[r] > 0 /\ ~embedOut[r].returned) =>
           result[r] = [status |-> 500, chunks |-> <<>>, total_chunks |-> 0,
                        detail |-> embedOut[r].exc.msg]
      /\ (embedOut[r].returned /\ \E i \in 1..n : ~embedOut[r].value[i].valid) =>
           /\ result[r].status = 500
           /\ result[r].chunks = <<>>
      /\ result[r].status = 500 => result[r].chunks = <<>>
      /\ result[r].status = 200 => Len(result[r].chunks) = Len(cs)

NonSuccess(r) == Done(r) /\ response[r].transport = "ok" /\ response[r].status # 200

\* C5 as stated: on a non-success provider status generate_embeddings fails
\* with an ExternalProviderError carrying the provider's status and message,
\* and the POST /chunk response is HTTP 500 with the provider's text.
C5_ExternalProviderError ==
  \A r \in Req :
    NonSuccess(r) =>
      LET e == embedOut[r].exc IN
      /\ e.type = "ExternalProviderError"
      /\ "status" \in DOMAIN e
      /\ e.status = response[r].status
      /\ \E i \in 1..Len(e.msg) : e.msg[i] = response[r].text
      /\ mode[r] = "route" => result[r].status = 500

\* C5 as amended: on a non-success provider status generate_embeddings
\* fails with a plain Exception whose message is "OpenRouter embedding
\* failed: " followed by the provider's response text, and which carries
\* nothing else (no status); the POST /chunk response is HTTP 500 with that
\* message as its detail.
C5_PlainExceptionWithText ==
  \A r \in Req :
    NonSuccess(r) =>
      /\ embedOut[r].returned = FALSE
      /\ embedOut[r].exc =
           [type |-> "Exception",
            msg |-> <<"OpenRouter embedding failed: ", response[r].text>>]
      /\ mode[r] = "route" =>
           result[r] = [status |-> 500, chunks |-> <<>>, total_chunks |-> 0,
                        detail |-> <<"OpenRouter embedding failed: ", response[r].text>>]

C5_Witness ==
  \E r \in Req :
    /\ RouteDone(r)
    /\ response[r].status = 401
    /\ response[r].text = "unauthorized"
    /\ result[r].status = 500

\* C6: a call of generate_embeddings issues exactly one provider request,
\* carrying the whole batch, when its list is non-empty, and none (returning
\* the empty list) when it is empty; nothing is re-issued after a failure;
\* a POST /chunk request makes at most one call and one provider request,
\* and the batch it sends is the full list of its chunk texts.
C6_SingleOutboundRequest ==
  \A r \in Req :
    /\ invoked[r] <= 1
    /\ Len(posts[r]) <= 1
    /\ invoked[r] = 0 => posts[r] = <<>>
    /\ (invoked[r] = 1 /\ texts[r] = <<>>) =>
         /\ posts[r] = <<>>
         /\ embedOut[r] = [returned |-> TRUE, value |-> <<>>, exc |-> NoExc]
    /\ (invoked[r] = 1 /\ texts[r] # <<>>) =>
         posts[r] = <<[model |-> "openai/text-embedding-3-small", input |-> texts[r]]>>
    /\ (mode[r] = "route" /\ invoked[r] = 1) =>
         /\ Len(texts[r]) = Len(chunkOut[r].value)
         /\ \A i \in 1..Len(texts[r]) : texts[r][i] = chunkOut[r].value[i].content

C6_Witness ==
  \E r \in Req :
    /\ RouteDone(r)
    /\ Len(texts[r]) >= 2
    /\ ~embedOut[r].returned
    /\ result[r].status = 500
    /\ Len(posts[r]) = 1

\* C7: in every successful POST /chunk response every chunk carries the
\* metadata of the request (None when the request had none).
C7_MetadataPassThrough ==
  \A r \in Req :
    (RouteDone(r) /\ result[r].status = 200) =>
      \A i \in 1..Len(result[r].chunks) :
        result[r].chunks[i].metadata = request[r].metadata

C7_Witness ==
  \E r \in Req :
    /\ RouteDone(r)
    /\ result[r].status = 200
    /\ Len(result[r].chunks) >= 2
    /\ request[r].metadata = Some("m2")

\* C8: for non-empty content and a supplied size and overlap in the
\* documented domain, chunk_document returns a non-empty list whose chunk at
\* list position i (0-based) has chunk_index i.
C8_IndexedNonEmpty ==
  \A r \in Req :
    (mode[r] = "route" /\ request[r].content # <<>> /\ SuppliedValid(request[r])) =>
      /\ chunkOut[r].returned
      /\ chunkOut[r].value # <<>>
      /\ \A i \in 1..Len(chunkOut[r].value) : chunkOut[r].value[i].chunk_index = i - 1

\* C9: the splitter is constructed with the caller's chunk_size and
\* chunk_overlap whenever they are supplied (a positive size, a non-negative
\* overlap), and with the configured default only for an omitted parameter.
C9_SuppliedParametersUsed ==
  \A r \in Req :
    mode[r] = "route" =>
      /\ splitter[r].constructed
      /\ request[r].chunk_size = None => splitter[r].chunk_size = 512
      /\ request[r].chunk_overlap = None => splitter[r].chunk_overlap = 50
      /\ (request[r].chunk_size # None /\ request[r].chunk_size[1] >= 1) =>
           splitter[r].chunk_size = request[r].chunk_size[1]
      /\ (request[r].chunk_overlap # None /\ request[r].chunk_overlap[1] >= 0) =>
           splitter[r].chunk_overlap = request[r].chunk_overlap[1]

\* What one request's body and the provider's answer to its own call
\* determine, computed without any state of the service.
ExpectedResult(req, resp) ==
  LET out == chunk_document(req.content, req.chunk_size, req.chunk_overlap) IN
  IF ~out.returned THEN Failure(out.exc)
  ELSE IF out.value = <<>> THEN Success(<<>>)
  ELSE Respond(out.value, generate_embeddings_resume(resp), req)

OwnTexts(req) ==
  ChunkContents(chunk_document(req.content, req.chunk_size, req.chunk_overlap).value)

\* C10: with several requests in flight, the provider request of each
\* carries that request's own chunk texts, the answer it consumes is the
\* answer to its own call, and its response is the one its own body and
\* that answer determine: nothing of another request appears in it.
C10_RequestsIndependent ==
  \A r \in Req :
    /\ pc[r] \in {"awaiting", "responded", "done"} /\ posts[r] # <<>> =>
         posts[r] = <<[model |-> openrouter_embedding_model, input |-> OwnTexts(request[r])]>>
    /\ pc[r] \in {"responded", "done"} /\ posts[r] # <<>> =>
         response[r] \in Answers(OwnTexts(request[r]))
    /\ pc[r] = "done" => result[r] = ExpectedResult(request[r], response[r])

C10_Witness ==
  \E r \in Req : \E q \in Req \ {r} :
    /\ pc[r] = "done"
    /\ result[r].status = 200
    /\ Len(result[r].chunks) = 2
    /\ pc[q] = "done"
    /\ result[q].status = 500
    /\ request[q].content # request[r].content
    /\ request[q].metadata # request[r].metadata

====
